---- MODULE Spec2Model ----
(***************************************************************************)
(* Model of pyhive/sqlalchemy_presto.py: the PrestoDialect operations.     *)
(*                                                                         *)
(* Text is modelled as a sequence of one-character strings, so that        *)
(* splitting, quoting, formatting and regular-expression matching are      *)
(* computed character by character as the Python code computes them.       *)
(* Python's None is the value None below, a sequence that is no text.      *)
(* One behaviour is one call of one operation: Init draws the operation    *)
(* and its arguments, the operation's action draws the outcome of the      *)
(* execution collaborator (connection.execute) and runs the whole method.  *)
(***************************************************************************)
EXTENDS Integers, Sequences, FiniteSets, TLC

VARIABLES op, phase, url, table_name, schema, outcome, sent, warnings, result

vars == <<op, phase, url, table_name, schema, outcome, sent, warnings, result>>

\* ------------------------------------------------------------------ bounds

MaxDbLen == 4

MaxNameLen == 2

MaxMid == 2

MaxRows == 2

\* ------------------------------------------------------------------ values

None == <<"None">>

Truthy(x) == x # None /\ x # <<>>

SeqsUpTo(S, n) == UNION {[1..k -> S] : k \in 0..n}

Alnum ==
    {"a","b","c","d","e","f","g","h","i","j","k","l","m","n","o","p","q","r",
     "s","t","u","v","w","x","y","z",
     "A","B","C","D","E","F","G","H","I","J","K","L","M","N","O","P","Q","R",
     "S","T","U","V","W","X","Y","Z",
     "0","1","2","3","4","5","6","7","8","9"}

\* ------------------------------------------------------------------ create_connect_args

RECURSIVE SplitFrom(_, _, _)
\* str.split(sep) on the text s, the segment cur being accumulated.
SplitFrom(s, sep, cur) ==
    IF s = <<>> THEN <<cur>>
    ELSE IF Head(s) = sep THEN <<cur>> \o SplitFrom(Tail(s), sep, <<>>)
    ELSE SplitFrom(Tail(s), sep, Append(cur, Head(s)))

\* Variant: str.split(sep, 1), at most one split.
split_once(s, sep) ==
    IF \A i \in 1..Len(s) : s[i] # sep THEN <<s>>
    ELSE LET i == CHOOSE i \in 1..Len(s) :
                     s[i] = sep /\ \A j \in 1..(i - 1) : s[j] # sep
         IN  <<SubSeq(s, 1, i - 1), SubSeq(s, i + 1, Len(s))>>

split(s, sep) == SplitFrom(s, sep, <<>>)

\* Variant: the merge keeps the entries already present (setdefault).
update_keep(f, g) ==
    [k \in DOMAIN f \cup DOMAIN g |-> IF k \in DOMAIN f THEN f[k] ELSE g[k]]

\* dict.update: every key of g is written into f.
update(f, g) ==
    [k \in DOMAIN f \cup DOMAIN g |-> IF k \in DOMAIN g THEN g[k] ELSE f[k]]

\* kwargs[k] = v
setitem(f, k, v) ==
    [x \in DOMAIN f \cup {k} |-> IF x = k THEN v ELSE f[x]]

UnexpectedDatabaseFormat ==
    <<"U","n","e","x","p","e","c","t","e","d"," ","d","a","t","a","b","a","s","e",
      " ","f","o","r","m","a","t"," ">>

Returns(v) == [kind |-> "return", value |-> v]

Raises(type, message) == [kind |-> "raise", exc |-> [type |-> type, message |-> message]]

\* The plain-text message of an exception raised with one string argument.
PlainMessage(text) == [shape |-> "str", has_message |-> FALSE, text |-> text]

\* Variant: the query parameters are merged after the path segments are written.
create_connect_args_merge_last(u) ==
    LET db_parts == split(u.database, "/")
        kwargs0  == [k \in {"host", "port", "username"} |->
                        IF k = "host" THEN u.host
                        ELSE IF k = "port" THEN u.port ELSE u.username]
    IN  IF Len(db_parts) = 1
          THEN Returns([args |-> <<>>,
                        kwargs |-> update(setitem(kwargs0, "catalog", db_parts[1]),
                                          u.query)])
        ELSE IF Len(db_parts) = 2
          THEN Returns([args |-> <<>>,
                        kwargs |-> update(setitem(setitem(kwargs0, "catalog", db_parts[1]),
                                                  "schema", db_parts[2]),
                                          u.query)])
        ELSE Raises("ValueError",
                    PlainMessage(UnexpectedDatabaseFormat \o u.database))

create_connect_args(u) ==
    LET db_parts == split(u.database, "/")
        kwargs0  == [k \in {"host", "port", "username"} |->
                        IF k = "host" THEN u.host
                        ELSE IF k = "port" THEN u.port ELSE u.username]
        kwargs   == update(kwargs0, u.query)
    IN  IF Len(db_parts) = 1
          THEN Returns([args |-> <<>>,
                        kwargs |-> setitem(kwargs, "catalog", db_parts[1])])
        ELSE IF Len(db_parts) = 2
          THEN Returns([args |-> <<>>,
                        kwargs |-> setitem(setitem(kwargs, "catalog", db_parts[1]),
                                           "schema", db_parts[2])])
        ELSE Raises("ValueError",
                    PlainMessage(UnexpectedDatabaseFormat \o u.database))

\* ------------------------------------------------------------------ _get_table_columns

\* IdentifierPreparer.quote_identifier of the SQL toolkit: the identifier is
\* always wrapped in double quotes, an embedded double quote is doubled.
RECURSIVE escape_identifier(_)
escape_identifier(value) ==
    IF value = <<>> THEN <<>>
    ELSE IF Head(value) = "\"" THEN <<"\"", "\"">> \o escape_identifier(Tail(value))
    ELSE <<Head(value)>> \o escape_identifier(Tail(value))

quote_identifier(value) == <<"\"">> \o escape_identifier(value) \o <<"\"">>

ShowColumnsFrom ==
    <<"S","H","O","W"," ","C","O","L","U","M","N","S"," ","F","R","O","M"," ">>

\* Variant: the table name goes into the pattern unescaped.
re_escape_none(s) == s

\* re.escape: a backslash before every character that is not alphanumeric.
RECURSIVE re_escape(_)
re_escape(s) ==
    IF s = <<>> THEN <<>>
    ELSE IF Head(s) \in Alnum THEN <<Head(s)>> \o re_escape(Tail(s))
    ELSE <<"\\", Head(s)>> \o re_escape(Tail(s))

\* r"^Table\ \'.*{}\'\ does\ not\ exist$" before and after the placeholder.
RegexBefore == <<"^","T","a","b","l","e","\\"," ","\\","'",".","*">>

RegexAfter ==
    <<"\\","'","\\"," ","d","o","e","s","\\"," ","n","o","t","\\"," ",
      "e","x","i","s","t","$">>

table_regex(name) == RegexBefore \o re_escape(name) \o RegexAfter

RECURSIVE match_at(_, _, _, _)
\* The regular expression re from position i matches the text s from position j.
\* Syntax covered: ^, $, \c (the character c), .* (greedy or not, the answer
\* is the same), . and plain characters; no flags, so . excludes the newline
\* and $ holds at the end and before a final newline.
match_at(re, i, s, j) ==
    IF i > Len(re) THEN TRUE
    ELSE IF re[i] = "^" THEN j = 1 /\ match_at(re, i + 1, s, j)
    ELSE IF re[i] = "$"
      THEN /\ \/ j = Len(s) + 1
              \/ j = Len(s) /\ s[j] = "\n"
           /\ match_at(re, i + 1, s, j)
    ELSE IF re[i] = "\\" /\ i < Len(re)
      THEN j <= Len(s) /\ s[j] = re[i + 1] /\ match_at(re, i + 2, s, j + 1)
    ELSE IF re[i] = "." /\ i < Len(re) /\ re[i + 1] = "*"
      THEN \E k \in j..(Len(s) + 1) :
              /\ \A m \in j..(k - 1) : s[m] # "\n"
              /\ match_at(re, i + 2, s, k)
    ELSE IF re[i] = "."
      THEN j <= Len(s) /\ s[j] # "\n" /\ match_at(re, i + 1, s, j + 1)
    ELSE j <= Len(s) /\ s[j] = re[i] /\ match_at(re, i + 1, s, j + 1)

\* re.match(regex, msg) is not None
re_match(regex, msg) == match_at(regex, 1, msg, 1)

\* presto.DatabaseError and its subclasses (the DB-API hierarchy of the
\* driver), which `except presto.DatabaseError` catches; presto.InterfaceError
\* and exceptions from outside the driver are not among them.
DatabaseErrorTypes ==
    {"DatabaseError", "InternalError", "OperationalError", "ProgrammingError",
     "DataError", "NotSupportedError"}

\* Variant: a plain-string message is taken as the message text too.
message_text_any(message) ==
    IF message.shape = "dict"
      THEN IF message.has_message THEN message.text ELSE None
      ELSE message.text

\* e.message.get('message') if isinstance(e.message, dict) else None
message_text(message) ==
    IF message.shape = "dict"
      THEN IF message.has_message THEN message.text ELSE None
      ELSE None

\* if msg and re.match(regex, msg)
is_no_such_table(name, message) ==
    LET msg == message_text(message)
    IN  Truthy(msg) /\ re_match(table_regex(name), msg)

\* The reference and query text built before the execute call.
full_table(name, sch) ==
    IF Truthy(sch)
      THEN quote_identifier(sch) \o <<".">> \o quote_identifier(name)
      ELSE quote_identifier(name)

\* Variant: a failed query is sent a second time.
execute_retry(query, out) ==
    [sent |-> IF out.kind = "rows" THEN <<query>> ELSE <<query, query>>,
     res  |-> IF out.kind = "rows" THEN Returns(out.rows)
              ELSE [kind |-> "raise", exc |-> out.exc]]

\* connection.execute(query): the collaborator's answer out, one query sent.
execute(query, out) ==
    [sent |-> <<query>>,
     res  |-> IF out.kind = "rows" THEN Returns(out.rows)
              ELSE [kind |-> "raise", exc |-> out.exc]]

_get_table_columns(name, sch, out) ==
    LET run == execute(ShowColumnsFrom \o full_table(name, sch), out)
    IN  IF run.res.kind = "raise" /\ run.res.exc.type \in DatabaseErrorTypes
          THEN IF is_no_such_table(name, run.res.exc.message)
                 THEN [sent |-> run.sent,
                       res  |-> Raises("NoSuchTableError", PlainMessage(name))]
                 ELSE run
          ELSE run

\* ------------------------------------------------------------------ has_table

\* Variant: every failure is answered with false (except Exception).
has_table_swallow(name, sch, out) ==
    LET cols == _get_table_columns(name, sch, out)
    IN  IF cols.res.kind = "return"
          THEN [sent |-> cols.sent, warnings |-> <<>>, res |-> Returns(TRUE)]
          ELSE [sent |-> cols.sent, warnings |-> <<>>, res |-> Returns(FALSE)]

has_table(name, sch, out) ==
    LET cols == _get_table_columns(name, sch, out)
    IN  IF cols.res.kind = "return"
          THEN [sent |-> cols.sent, warnings |-> <<>>, res |-> Returns(TRUE)]
        ELSE IF cols.res.exc.type = "NoSuchTableError"
          THEN [sent |-> cols.sent, warnings |-> <<>>, res |-> Returns(FALSE)]
        ELSE [sent |-> cols.sent, warnings |-> <<>>, res |-> cols.res]

\* ------------------------------------------------------------------ get_columns

_type_map ==
    [t \in {"bigint", "boolean", "double", "varchar"} |->
        IF t = "bigint" THEN "BigInteger"
        ELSE IF t = "boolean" THEN "Boolean"
        ELSE IF t = "double" THEN "Float" ELSE "String"]

NullType == "NullType"

\* One pass of the loop body: the descriptor appended for the row.
column_of(row) ==
    [name     |-> row.name,
     type     |-> IF row.type \in DOMAIN _type_map THEN _type_map[row.type] ELSE NullType,
     nullable |-> row.nullable,
     default  |-> None]

\* util.warn(...) of the loop body: the warnings the row adds.
warning_of(row) ==
    IF row.type \in DOMAIN _type_map THEN <<>>
    ELSE <<[coltype |-> row.type, name |-> row.name]>>

\* Variant: the loop ends at the first row whose type is not in the map.
RECURSIVE columns_loop_stop(_)
columns_loop_stop(rows) ==
    IF rows = <<>> THEN [result |-> <<>>, warnings |-> <<>>]
    ELSE IF Head(rows).type \notin DOMAIN _type_map
      THEN [result |-> <<column_of(Head(rows))>>, warnings |-> warning_of(Head(rows))]
    ELSE LET rest == columns_loop_stop(Tail(rows))
         IN  [result   |-> <<column_of(Head(rows))>> \o rest.result,
              warnings |-> rest.warnings]

RECURSIVE columns_loop(_)
columns_loop(rows) ==
    IF rows = <<>> THEN [result |-> <<>>, warnings |-> <<>>]
    ELSE LET rest == columns_loop(Tail(rows))
         IN  [result   |-> <<column_of(Head(rows))>> \o rest.result,
              warnings |-> warning_of(Head(rows)) \o rest.warnings]

get_columns(name, sch, out) ==
    LET cols == _get_table_columns(name, None, out)
    IN  IF cols.res.kind = "return"
          THEN LET loop == columns_loop(cols.res.value)
               IN  [sent |-> cols.sent, warnings |-> loop.warnings,
                    res |-> Returns(loop.result)]
          ELSE [sent |-> cols.sent, warnings |-> <<>>, res |-> cols.res]

\* ------------------------------------------------------------------ get_indexes

\* Variant: the flagged names are prepended, so they come out in reverse row order.
RECURSIVE partition_columns_rev(_)
partition_columns_rev(rows) ==
    IF rows = <<>> THEN <<>>
    ELSE IF Head(rows).partition_key
      THEN partition_columns_rev(Tail(rows)) \o <<Head(rows).name>>
    ELSE partition_columns_rev(Tail(rows))

RECURSIVE partition_columns(_)
partition_columns(rows) ==
    IF rows = <<>> THEN <<>>
    ELSE IF Head(rows).partition_key
      THEN <<Head(rows).name>> \o partition_columns(Tail(rows))
    ELSE partition_columns(Tail(rows))

get_indexes(name, sch, out) ==
    LET cols == _get_table_columns(name, None, out)
    IN  IF cols.res.kind = "return"
          THEN LET col_names == partition_columns(cols.res.value)
               IN  [sent |-> cols.sent, warnings |-> <<>>,
                    res |-> IF col_names # <<>>
                              THEN Returns(<<[name |-> "partition",
                                              column_names |-> col_names,
                                              unique |-> FALSE]>>)
                              ELSE Returns(<<>>)]
          ELSE [sent |-> cols.sent, warnings |-> <<>>, res |-> cols.res]

\* ------------------------------------------------------------------ get_table_names

ShowTables == <<"S","H","O","W"," ","T","A","B","L","E","S">>

From == <<" ","F","R","O","M"," ">>

tables_query(sch) ==
    IF Truthy(sch) THEN ShowTables \o From \o quote_identifier(sch) ELSE ShowTables

get_table_names(sch, out) ==
    LET run == execute(tables_query(sch), out)
    IN  IF run.res.kind = "return"
          THEN [sent |-> run.sent, warnings |-> <<>>,
                res |-> Returns([i \in 1..Len(run.res.value) |->
                                    run.res.value[i].tab_name])]
          ELSE [sent |-> run.sent, warnings |-> <<>>, res |-> run.res]

\* ------------------------------------------------------------------ operations without a query

get_foreign_keys(name, sch) == Returns(<<>>)

get_pk_constraint(name, sch) == Returns(<<>>)

do_rollback == Returns(None)

_check_unicode_returns == Returns(TRUE)

_check_unicode_description == Returns(TRUE)

\* ------------------------------------------------------------------ inputs

DbChars == {"a", "b", "/"}

Databases == SeqsUpTo(DbChars, MaxDbLen)

QueryKeys == {"host", "port", "username", "catalog", "schema", "source"}

QueryValue == <<"q">>

Queries == UNION {[K -> {QueryValue}] : K \in SUBSET QueryKeys}

Urls ==
    [host : {<<"h">>}, port : {8080}, username : {<<"u">>},
     database : Databases, query : Queries]

NoUrl ==
    [host |-> <<>>, port |-> 0, username |-> <<>>, database |-> <<>>,
     query |-> <<>>]

NameChars == {"a", "."}

\* Table names, the empty name included.
Names == SeqsUpTo(NameChars, MaxNameLen)

\* schema=None, the empty schema, a plain schema, a schema holding a quote.
Schemas == {None, <<>>, <<"s">>, <<"s", "\"">>}

\* The rows a SHOW COLUMNS answer is made of: (Column, Type, Null, Partition Key).
ColumnRows ==
    {[name |-> "id",     type |-> "bigint",     nullable |-> TRUE,  partition_key |-> FALSE],
     [name |-> "flag",   type |-> "boolean",    nullable |-> FALSE, partition_key |-> FALSE],
     [name |-> "price",  type |-> "double",     nullable |-> TRUE,  partition_key |-> FALSE],
     [name |-> "title",  type |-> "varchar",    nullable |-> TRUE,  partition_key |-> FALSE],
     [name |-> "weird",  type |-> "frobnicate", nullable |-> TRUE,  partition_key |-> FALSE],
     [name |-> "region", type |-> "varchar",    nullable |-> FALSE, partition_key |-> TRUE],
     [name |-> "day",    type |-> "bigint",     nullable |-> TRUE,  partition_key |-> TRUE],
     [name |-> "odd",    type |-> "BIGINT",     nullable |-> FALSE, partition_key |-> TRUE]}

TableRows == {[tab_name |-> "t1"], [tab_name |-> "t2"]}

MsgHead == <<"T","a","b","l","e"," ","'">>

MsgTail == <<"'"," ","d","o","e","s"," ","n","o","t"," ","e","x","i","s","t">>

LowerHead == <<"t","a","b","l","e"," ","'">>

MidChars == {"a", ".", "\n"}

Mids == SeqsUpTo(MidChars, MaxMid)

\* Backend message texts around the not-found wording.
MsgTexts ==
    UNION {{MsgHead \o m \o MsgTail,
            MsgHead \o m \o MsgTail \o <<"\n">>,
            MsgHead \o m \o MsgTail \o <<"\n", "\n">>,
            MsgHead \o m \o MsgTail \o <<"a">>,
            <<"a">> \o MsgHead \o m \o MsgTail,
            LowerHead \o m \o MsgTail,
            m} : m \in Mids}

\* Message payloads of a backend error: plain text, a mapping with a
\* 'message' entry (text or null), a mapping without one.
Messages ==
    {[shape |-> "str", has_message |-> FALSE, text |-> t] : t \in MsgTexts}
    \cup {[shape |-> "dict", has_message |-> TRUE, text |-> t] : t \in MsgTexts \cup {None}}
    \cup {[shape |-> "dict", has_message |-> FALSE, text |-> <<>>]}

\* The exception classes connection.execute raises: the driver's database
\* errors, its InterfaceError, and an error from outside the driver.
ErrorTypes == DatabaseErrorTypes \cup {"InterfaceError", "OSError"}

\* The classes raised with every message payload; the others carry an empty
\* plain message or a mapping with the not-found text of some table name.
FullMessageTypes == {"DatabaseError", "ProgrammingError"}

Failures ==
    {[kind |-> "raise", exc |-> [type |-> t, message |-> m]] :
        t \in FullMessageTypes, m \in Messages}
    \cup {[kind |-> "raise", exc |-> [type |-> t, message |-> m]] :
             t \in ErrorTypes \ FullMessageTypes,
             m \in {PlainMessage(<<>>)}
                    \cup {[shape |-> "dict", has_message |-> TRUE,
                           text |-> MsgHead \o n \o MsgTail] : n \in Names}}

ColumnOutcomes ==
    {[kind |-> "rows", rows |-> r] : r \in SeqsUpTo(ColumnRows, MaxRows)} \cup Failures

TableOutcomes ==
    {[kind |-> "rows", rows |-> r] : r \in SeqsUpTo(TableRows, MaxRows)} \cup Failures

NoOutcome == [kind |-> "none"]

NoResult == [kind |-> "none"]

\* ------------------------------------------------------------------ behaviour

ColumnOps == {"has_table", "get_columns", "get_indexes"}

ConstraintOps == {"get_foreign_keys", "get_pk_constraint"}

NoArgOps == {"do_rollback", "_check_unicode_returns", "_check_unicode_description"}

Init ==
    /\ phase = "call"
    /\ outcome = NoOutcome
    /\ sent = <<>>
    /\ warnings = <<>>
    /\ result = NoResult
    /\ \/ /\ op = "create_connect_args"
          /\ url \in Urls
          /\ table_name = None
          /\ schema = None
       \/ /\ op \in ColumnOps \cup ConstraintOps
          /\ url = NoUrl
          /\ table_name \in Names
          /\ schema \in Schemas
       \/ /\ op = "get_table_names"
          /\ url = NoUrl
          /\ table_name = None
          /\ schema \in Schemas
       \/ /\ op \in NoArgOps
          /\ url = NoUrl
          /\ table_name = None
          /\ schema = None

\* A method that runs one query: the collaborator's answer is recorded with
\* what the method sent, warned and returned or raised.
Finish(out, run) ==
    /\ outcome' = out
    /\ sent' = run.sent
    /\ warnings' = run.warnings
    /\ result' = run.res
    /\ phase' = "done"
    /\ UNCHANGED <<op, url, table_name, schema>>

\* A method that runs no query.
FinishQuiet(res) ==
    /\ result' = res
    /\ phase' = "done"
    /\ UNCHANGED <<op, url, table_name, schema, outcome, sent, warnings>>

CreateConnectArgs ==
    /\ phase = "call"
    /\ op = "create_connect_args"
    /\ FinishQuiet(create_connect_args(url))

HasTable ==
    /\ phase = "call"
    /\ op = "has_table"
    /\ \E out \in ColumnOutcomes : Finish(out, has_table(table_name, schema, out))

GetColumns ==
    /\ phase = "call"
    /\ op = "get_columns"
    /\ \E out \in ColumnOutcomes : Finish(out, get_columns(table_name, schema, out))

GetIndexes ==
    /\ phase = "call"
    /\ op = "get_indexes"
    /\ \E out \in ColumnOutcomes : Finish(out, get_indexes(table_name, schema, out))

GetTableNames ==
    /\ phase = "call"
    /\ op = "get_table_names"
    /\ \E out \in TableOutcomes : Finish(out, get_table_names(schema, out))

GetForeignKeys ==
    /\ phase = "call"
    /\ op = "get_foreign_keys"
    /\ FinishQuiet(get_foreign_keys(table_name, schema))

GetPkConstraint ==
    /\ phase = "call"
    /\ op = "get_pk_constraint"
    /\ FinishQuiet(get_pk_constraint(table_name, schema))

DoRollback ==
    /\ phase = "call"
    /\ op = "do_rollback"
    /\ FinishQuiet(do_rollback)

CheckUnicodeReturns ==
    /\ phase = "call"
    /\ op = "_check_unicode_returns"
    /\ FinishQuiet(_check_unicode_returns)

CheckUnicodeDescription ==
    /\ phase = "call"
    /\ op = "_check_unicode_description"
    /\ FinishQuiet(_check_unicode_description)

Next ==
    \/ CreateConnectArgs
    \/ HasTable
    \/ GetColumns
    \/ GetIndexes
    \/ GetTableNames
    \/ GetForeignKeys
    \/ GetPkConstraint
    \/ DoRollback
    \/ CheckUnicodeReturns
    \/ CheckUnicodeDescription

Spec == Init /\ [][Next]_vars

\* ------------------------------------------------------------------ properties

Done(o) == phase = "done" /\ op = o

Failed == outcome.kind = "raise"

\* The call ended by raising the collaborator's own error, unchanged.
Propagated == result.kind = "raise" /\ result.exc = outcome.exc

\* The collaborator's error came out as the "no such table" error: has_table
\* answers false, the other column operations raise NoSuchTableError.
Translated ==
    IF op = "has_table"
      THEN result.kind = "return" /\ result.value = FALSE
      ELSE result.kind = "raise" /\ result.exc.type = "NoSuchTableError"

\* The text Table '<name>' does not exist.
NotFoundText(name) == MsgHead \o name \o MsgTail

\* C1: has_table has exactly three outcomes: true when the SHOW COLUMNS query
\* succeeds, false when the failure is classified as "table does not exist",
\* and any other failure is re-raised unchanged.
C1_HasTableOutcomes ==
    Done("has_table") =>
        IF ~Failed THEN result.kind = "return" /\ result.value = TRUE
        ELSE IF /\ outcome.exc.type \in DatabaseErrorTypes
                /\ is_no_such_table(table_name, outcome.exc.message)
          THEN result.kind = "return" /\ result.value = FALSE
        ELSE Propagated

C1_Witness ==
    /\ Done("has_table")
    /\ Failed
    /\ outcome.exc.type = "DatabaseError"
    /\ outcome.exc.message.shape = "dict"
    /\ outcome.exc.message.text = <<"a">>
    /\ Propagated

\* C2 as stated: the not-found text is translated for requested table T both
\* as a plain-string message and as the 'message' entry of a mapping, so
\* has_table returns false in both cases.
C2_BothShapes ==
    (/\ Done("has_table")
     /\ Failed
     /\ outcome.exc.type = "DatabaseError"
     /\ \/ outcome.exc.message.shape = "str"
        \/ outcome.exc.message.shape = "dict" /\ outcome.exc.message.has_message
     /\ outcome.exc.message.text = NotFoundText(table_name))
    => (result.kind = "return" /\ result.value = FALSE)

\* C2 amended: the not-found text is extracted only from a mapping's 'message'
\* entry, where has_table returns false; the same text as a plain-string
\* message is not classified and has_table re-raises the error unchanged.
C2_MappingOnly ==
    (/\ Done("has_table")
     /\ Failed
     /\ outcome.exc.type = "DatabaseError"
     /\ outcome.exc.message.text = NotFoundText(table_name))
    => IF outcome.exc.message.shape = "dict" /\ outcome.exc.message.has_message
         THEN result.kind = "return" /\ result.value = FALSE
         ELSE Propagated

C2_Witness ==
    /\ Done("has_table")
    /\ Failed
    /\ table_name = <<"a", ".">>
    /\ outcome.exc.message.shape = "dict"
    /\ outcome.exc.message.has_message
    /\ outcome.exc.message.text = NotFoundText(table_name)
    /\ result.kind = "return"
    /\ result.value = FALSE

\* C3 as stated: a backend error is translated only when its whole message is
\* Table '<N>' does not exist with N the requested name; every other message
\* (one naming a table that merely ends with N included) propagates unchanged.
\* Stated for a non-empty requested name N.
C3_ExactNameOnly ==
    (/\ phase = "done"
     /\ op \in ColumnOps
     /\ table_name # <<>>
     /\ Failed
     /\ outcome.exc.message.text # NotFoundText(table_name))
    => Propagated

\* text ends with the text suffix.
EndsWith(text, suffix) ==
    /\ Len(text) >= Len(suffix)
    /\ SubSeq(text, Len(text) - Len(suffix) + 1, Len(text)) = suffix

\* text is Table '<P><name>' does not exist, P any text without a newline.
PrefixedNotFound(name, text) ==
    /\ Len(text) >= Len(MsgHead) + Len(name) + Len(MsgTail)
    /\ SubSeq(text, 1, Len(MsgHead)) = MsgHead
    /\ EndsWith(text, name \o MsgTail)
    /\ \A i \in (Len(MsgHead) + 1)..(Len(text) - Len(name) - Len(MsgTail)) :
          text[i] # "\n"

\* The payload is a mapping whose 'message' text is the prefixed not-found
\* text, alone or followed by one newline.
NotFoundPayload(name, message) ==
    /\ message.shape = "dict"
    /\ message.has_message
    /\ message.text # None
    /\ \/ PrefixedNotFound(name, message.text)
       \/ /\ EndsWith(message.text, <<"\n">>)
          /\ PrefixedNotFound(name, SubSeq(message.text, 1, Len(message.text) - 1))

\* C3 amended: a backend error is translated exactly when its payload is a
\* mapping whose 'message' is Table '<P><N>' does not exist (one final newline
\* allowed), N the requested name matched literally and P any text without a
\* newline, so a table name that ends with N is translated too; every other
\* backend error propagates unchanged.
C3_NameSuffix ==
    (phase = "done" /\ op \in ColumnOps /\ Failed)
    => /\ Translated <=> (/\ outcome.exc.type \in DatabaseErrorTypes
                          /\ NotFoundPayload(table_name, outcome.exc.message))
       /\ ~Translated => Propagated

C3_Witness ==
    /\ Done("has_table")
    /\ Failed
    /\ table_name = <<"a">>
    /\ outcome.exc.message.shape = "dict"
    /\ outcome.exc.message.has_message
    /\ outcome.exc.message.text = NotFoundText(<<".", "a">>)
    /\ result.kind = "return"
    /\ result.value = FALSE

\* The positions of the separator in the database path.
Slashes(db) == {i \in 1..Len(db) : db[i] = "/"}

FirstSegment(db) ==
    IF Slashes(db) = {} THEN db
    ELSE SubSeq(db, 1, (CHOOSE i \in Slashes(db) : \A j \in Slashes(db) : i <= j) - 1)

SecondSegment(db) ==
    SubSeq(db, (CHOOSE i \in Slashes(db) : TRUE) + 1, Len(db))

ConfigurationError(db) ==
    /\ result.kind = "raise"
    /\ result.exc.type = "ValueError"
    /\ EndsWith(result.exc.message.text, db)
    /\ Len(result.exc.message.text) > Len(db)

\* C4 as stated: one segment gives 'catalog' and no 'schema' key, two segments
\* give 'catalog' and 'schema', any other number fails with a configuration
\* error carrying the raw path.
C4_SegmentsNoSchema ==
    Done("create_connect_args") =>
        LET db == url.database
            n  == Cardinality(Slashes(db)) + 1
        IN  IF n = 1
              THEN /\ result.kind = "return"
                   /\ result.value.kwargs["catalog"] = db
                   /\ "schema" \notin DOMAIN result.value.kwargs
            ELSE IF n = 2
              THEN /\ result.kind = "return"
                   /\ result.value.kwargs["catalog"] = FirstSegment(db)
                   /\ result.value.kwargs["schema"] = SecondSegment(db)
            ELSE ConfigurationError(db)

\* C4 amended: as C4, but with one segment the output has a 'schema' key
\* exactly when the query parameters supply one, holding the query's value.
C4_Segments ==
    Done("create_connect_args") =>
        LET db == url.database
            n  == Cardinality(Slashes(db)) + 1
        IN  IF n = 1
              THEN /\ result.kind = "return"
                   /\ result.value.kwargs["catalog"] = db
                   /\ "schema" \in DOMAIN result.value.kwargs
                         <=> "schema" \in DOMAIN url.query
                   /\ "schema" \in DOMAIN url.query
                         => result.value.kwargs["schema"] = url.query["schema"]
            ELSE IF n = 2
              THEN /\ result.kind = "return"
                   /\ result.value.kwargs["catalog"] = FirstSegment(db)
                   /\ result.value.kwargs["schema"] = SecondSegment(db)
            ELSE ConfigurationError(db)

C4_Witness ==
    /\ Done("create_connect_args")
    /\ url.database = <<"a", "/", "b", "/">>
    /\ result.kind = "raise"
    /\ result.exc.type = "ValueError"

\* C5 as stated: with one or two segments every query parameter is in the
\* returned mapping under the same key with the same value.
C5_AllVerbatim ==
    (Done("create_connect_args") /\ result.kind = "return")
    => \A k \in DOMAIN url.query :
          /\ k \in DOMAIN result.value.kwargs
          /\ result.value.kwargs[k] = url.query[k]

\* The keys the database path writes after the merge.
PathKeys(db) ==
    IF Cardinality(Slashes(db)) = 1 THEN {"catalog", "schema"} ELSE {"catalog"}

\* C5 amended: with one or two segments every query parameter whose key is
\* not 'catalog', nor 'schema' with a two-segment path, is in the returned
\* mapping under the same key with the same value.
C5_VerbatimButPathKeys ==
    (Done("create_connect_args") /\ result.kind = "return")
    => \A k \in DOMAIN url.query \ PathKeys(url.database) :
          /\ k \in DOMAIN result.value.kwargs
          /\ result.value.kwargs[k] = url.query[k]

C5_Witness ==
    /\ Done("create_connect_args")
    /\ result.kind = "return"
    /\ DOMAIN url.query = {"source", "username", "schema"}
    /\ url.database = <<"a">>
    /\ result.value.kwargs["source"] = QueryValue
    /\ result.value.kwargs["username"] = QueryValue
    /\ result.value.kwargs["schema"] = QueryValue

\* C6: get_columns and get_indexes called with a non-empty schema send
\* SHOW COLUMNS FROM <quoted schema>.<quoted table>, the reference has_table
\* queries; the quoted table alone only when no schema is given.
C6_SchemaQualified ==
    (phase = "done" /\ op \in {"get_columns", "get_indexes"})
    => sent = <<ShowColumnsFrom \o
                 (IF Truthy(schema)
                    THEN quote_identifier(schema) \o <<".">> \o quote_identifier(table_name)
                    ELSE quote_identifier(table_name))>>

\* C7: get_columns returns one descriptor per row in row order with the row's
\* name and nullable flag, default null and the mapped type; a type absent
\* from the map gives the unknown type and one warning for that row, raises
\* nothing and the remaining rows are still processed.
C7_ColumnDescriptors ==
    (Done("get_columns") /\ ~Failed)
    => LET rows    == outcome.rows
           unknown == SelectSeq(rows, LAMBDA r : r.type \notin DOMAIN _type_map)
       IN  /\ result.kind = "return"
           /\ Len(result.value) = Len(rows)
           /\ \A i \in 1..Len(rows) :
                 /\ result.value[i].name = rows[i].name
                 /\ result.value[i].nullable = rows[i].nullable
                 /\ result.value[i].default = None
                 /\ result.value[i].type =
                       IF rows[i].type \in DOMAIN _type_map
                         THEN _type_map[rows[i].type] ELSE NullType
           /\ Len(warnings) = Len(unknown)
           /\ \A j \in 1..Len(unknown) :
                 /\ warnings[j].name = unknown[j].name
                 /\ warnings[j].coltype = unknown[j].type

C7_Witness ==
    /\ Done("get_columns")
    /\ ~Failed
    /\ Len(outcome.rows) = 2
    /\ outcome.rows[1].type = "frobnicate"
    /\ outcome.rows[2].type = "bigint"
    /\ result.kind = "return"
    /\ Len(result.value) = 2
    /\ result.value[1].type = NullType
    /\ result.value[2].type = "BigInteger"
    /\ Len(warnings) = 1

\* C8: get_indexes returns the empty list when no row is flagged as a
\* partition key, otherwise exactly one non-unique index named 'partition'
\* whose column_names are the flagged rows' names in row order.
C8_PartitionIndex ==
    (Done("get_indexes") /\ ~Failed)
    => LET flagged == SelectSeq(outcome.rows, LAMBDA r : r.partition_key)
       IN  /\ result.kind = "return"
           /\ Len(result.value) <= 1
           /\ Len(result.value) = 0 <=> flagged = <<>>
           /\ flagged # <<>> =>
                 /\ result.value[1].name = "partition"
                 /\ result.value[1].unique = FALSE
                 /\ Len(result.value[1].column_names) = Len(flagged)
                 /\ \A i \in 1..Len(flagged) :
                       result.value[1].column_names[i] = flagged[i].name

C8_Witness ==
    /\ Done("get_indexes")
    /\ ~Failed
    /\ Len(outcome.rows) = 2
    /\ outcome.rows[1].name = "region"
    /\ outcome.rows[2].name = "day"
    /\ result.kind = "return"
    /\ result.value[1].column_names = <<"region", "day">>

\* C9: has_table, get_columns, get_indexes and get_table_names send exactly
\* one query per call, on success and on failure; the other operations send
\* none, and the constraint lookups, do_rollback and the Unicode checks
\* always return (the constraint lookups the empty list).
C9_OneQueryPerCall ==
    phase = "done" =>
        /\ Len(sent) <= 1
        /\ op \in ColumnOps \cup {"get_table_names"} => Len(sent) = 1
        /\ op \notin ColumnOps \cup {"get_table_names"} => Len(sent) = 0
        /\ op \in ConstraintOps \cup NoArgOps => result.kind = "return"
        /\ op \in ConstraintOps => result.value = <<>>

C9_Witness ==
    /\ Done("has_table")
    /\ Failed
    /\ outcome.exc.type = "InterfaceError"
    /\ Len(sent) = 1
    /\ result.kind = "raise"

\* C10: in the returned mapping 'catalog' is the first path segment and, with
\* two segments, 'schema' is the second, whatever the query parameters hold;
\* 'host', 'port' and 'username' hold the query parameter of that key when
\* there is one and the URL's own value otherwise.
C10_PathOverQueryOverUrl ==
    (Done("create_connect_args") /\ result.kind = "return")
    => LET kwargs == result.value.kwargs
       IN  /\ kwargs["catalog"] = FirstSegment(url.database)
           /\ Slashes(url.database) # {} =>
                 kwargs["schema"] = SecondSegment(url.database)
           /\ kwargs["host"] =
                 IF "host" \in DOMAIN url.query THEN url.query["host"] ELSE url.host
           /\ kwargs["port"] =
                 IF "port" \in DOMAIN url.query THEN url.query["port"] ELSE url.port
           /\ kwargs["username"] =
                 IF "username" \in DOMAIN url.query
                   THEN url.query["username"] ELSE url.username

C10_Witness ==
    /\ Done("create_connect_args")
    /\ result.kind = "return"
    /\ url.database = <<"a", "/", "b">>
    /\ DOMAIN url.query = {"catalog", "schema", "host"}
    /\ result.value.kwargs["catalog"] = <<"a">>
    /\ result.value.kwargs["schema"] = <<"b">>
    /\ result.value.kwargs["host"] = QueryValue

====
